---- MODULE Spec2Model ----
(***************************************************************************)
(* DevDigest: the glossary collector (Glossary.py) and the news collector  *)
(* (Collector.py) as state machines over their CSV files.                  *)
(*                                                                         *)
(* Text is a sequence of one-character strings, so that str.lower,         *)
(* str.strip, str.startswith and the `in` substring test are computed      *)
(* character by character as Python computes them.                         *)
(***************************************************************************)
EXTENDS Integers, Sequences, FiniteSets, TLC

\* ------------------------------------------------------------------ bounds
\* collector runs started in one behaviour
MaxRuns == 2
\* members in one category listing response
MaxPages == 3
\* rows of an arbitrary pre-existing glossary CSV (load_existing_topics)
MaxRows == 3
\* save_entry calls in a row on a fresh file
MaxWrites == 2
\* ids in the Hacker News listing / items in the tech-news listing
MaxIds == 6

\* ------------------------------------------------------- program constants
max_attempts == 10
news_limit == 5
hn_slice == 30

\* ------------------------------------------------------------ Python values
\* Python's None: a value different from every str (a str holds only
\* one-character elements).
None == <<"None">>

\* truthiness of an optional str: `if x` / `not x`
Truthy(x) == x # None /\ x # <<>>

Uppers == <<"A","B","C","D","E","F","G","H","I","J","K","L","M",
            "N","O","P","Q","R","S","T","U","V","W","X","Y","Z">>
Lowers == <<"a","b","c","d","e","f","g","h","i","j","k","l","m",
            "n","o","p","q","r","s","t","u","v","w","x","y","z">>

LowerChar(c) ==
    IF \E i \in 1..26 : Uppers[i] = c
    THEN Lowers[CHOOSE i \in 1..26 : Uppers[i] = c]
    ELSE c

\* str.lower()
Lower(s) == [i \in 1..Len(s) |-> LowerChar(s[i])]

IsSpace(c) == c \in {" ", "\t", "\n", "\r"}

\* str.strip()
Strip(s) ==
    LET keep == {i \in 1..Len(s) : ~IsSpace(s[i])}
    IN  IF keep = {} THEN <<>>
        ELSE LET lo == CHOOSE i \in keep : \A j \in keep : i <= j
                 hi == CHOOSE i \in keep : \A j \in keep : j <= i
             IN  SubSeq(s, lo, hi)

\* str.startswith(pre)
StartsWith(s, pre) ==
    Len(s) >= Len(pre) /\ SubSeq(s, 1, Len(pre)) = pre

\* `sub in s`
Contains(s, sub) ==
    \E i \in 1..(Len(s) - Len(sub) + 1) : SubSeq(s, i, i + Len(sub) - 1) = sub

\* x.lower().strip(), the key of the de-duplication set
Normalize(s) == Strip(Lower(s))

\* --------------------------------------------------------------- literals
S_ListOf == <<"L","i","s","t"," ","o","f">>
S_Disambig == <<"(","d","i","s","a","m","b","i","g","u","a","t","i","o","n",")">>
S_date_added == <<"d","a","t","e","_","a","d","d","e","d">>
S_category == <<"c","a","t","e","g","o","r","y">>
S_topic == <<"t","o","p","i","c">>
S_definition == <<"d","e","f","i","n","i","t","i","o","n">>
S_url == <<"u","r","l">>

\* fieldnames of save_entry
fieldnames == <<S_date_added, S_category, S_topic, S_definition, S_url>>

\* datetime.now().strftime('%Y-%m-%d'): one fixed day
current_date == <<"2","0","2","5","-","0","1","-","0","1">>

\* CATEGORY_DATA, abridged to its first two entries: the label is copied
\* into the row and plays no part in any decision of the loop.
CATEGORY_DATA ==
    { [category |-> <<"C",":","s","e","c">>, label |-> <<"C","y","b","e","r">>],
      [category |-> <<"C",":","A","I">>, label |-> <<"A","I">>] }

\* --------------------------------------------------------- the outside world
\* titles the category listing can carry
T_ListOfX == S_ListOf \o <<" ","X">>
T_YDis == <<"Y"," ">> \o S_Disambig
T_Z == <<"Z">>
T_z == <<" ","z">>
T_Q == <<"Q">>
\* an entry whose title is the empty string
T_Empty == <<>>
T_UpperDis == <<"W"," ","(","D","i","s","a","m","b","i","g","u","a","t","i","o","n",")">>

\* a categorymembers entry without a 'title' key
NoTitleKey == <<"NoTitleKey">>

PagePool == {T_ListOfX, T_YDis, T_UpperDis, T_Z, T_z, T_Q, T_Empty, NoTitleKey}

RECURSIVE SeqsUpTo(_, _)
SeqsUpTo(S, n) ==
    IF n = 0 THEN {<<>>}
    ELSE LET shorter == SeqsUpTo(S, n - 1)
         IN  shorter \cup {Append(s, x) : s \in {t \in shorter : Len(t) = n - 1}, x \in S}

\* what one categorymembers request can produce: an exception
\* (network, HTTP status, malformed JSON) or a list of pages
Listings == SeqsUpTo(PagePool, MaxPages)


\* ------------------------------------------- get_random_page_from_category
IsListPage(t) == StartsWith(t, S_ListOf)
IsDisambigPage(t) == Contains(Lower(t), S_Disambig)
\* `or` in place of `and` in the filter
IsValidPageOr(t) == ~IsListPage(t) \/ ~IsDisambigPage(t)

IsValidPage(t) == ~IsListPage(t) /\ ~IsDisambigPage(t)

\* the list comprehension building valid_pages
valid_pages(pages) == SelectSeq(pages, IsValidPage)

\* The values get_random_page_from_category can return for one response:
\* err is an exception from requests.get / raise_for_status / json();
\* a page without 'title' raises KeyError inside the comprehension, which
\* the same except clause turns into None; random.choice may pick any
\* element of valid_pages.
get_random_page_from_category(err, pages) ==
    IF err THEN {None}
    ELSE IF pages = <<>> THEN {None}
    ELSE IF \E i \in 1..Len(pages) : pages[i] = NoTitleKey THEN {None}
    ELSE LET valid == valid_pages(pages)
         IN  IF valid = <<>> THEN {None}
             ELSE {valid[i] : i \in 1..Len(valid)}

\* ------------------------------------------------ get_wikipedia_definition
\* a key missing from a JSON object
Absent == <<"Absent">>
\* the except clause was taken
Raised == <<"Raised">>

D_text == <<"d","e","f">>
U_text == <<"u",":","/","/","w">>

\* Bodies of the summary endpoint.  cu/desktop say whether 'content_urls'
\* and its 'desktop' member are missing, JSON null or an object; page is the
\* value of 'page' inside it.
ContentUrls ==
    { [cu |-> "absent", desktop |-> "absent", page |-> Absent],
      [cu |-> "null",   desktop |-> "absent", page |-> Absent],
      [cu |-> "dict",   desktop |-> "absent", page |-> Absent],
      [cu |-> "dict",   desktop |-> "null",   page |-> Absent],
      [cu |-> "dict",   desktop |-> "dict",   page |-> Absent],
      [cu |-> "dict",   desktop |-> "dict",   page |-> None],
      [cu |-> "dict",   desktop |-> "dict",   page |-> U_text] }

SummaryBodies ==
    [ title : {Absent, None, T_Z},
      extract : {Absent, None, <<>>, D_text},
      type : {"standard", "disambiguation"},
      urls : ContentUrls ]

\* status: "404", "error" (exception or other HTTP error status), "ok"
SummaryResponses ==
    { [status |-> st, body |-> b] : st \in {"404", "error"},
                                    b \in {CHOOSE x \in SummaryBodies : TRUE} }
    \cup { [status |-> "ok", body |-> b] : b \in SummaryBodies }

\* d.get(key, default) for a key whose value is v (Absent when missing)
DictGet(v, default) == IF v = Absent THEN default ELSE v

\* data.get('content_urls', {}).get('desktop', {}).get('page', '')
WikiUrl(u) ==
    IF u.cu = "null" THEN Raised
    ELSE IF u.cu = "absent" \/ u.desktop = "absent" THEN <<>>
    ELSE IF u.desktop = "null" THEN Raised
    ELSE DictGet(u.page, <<>>)

\* get_wikipedia_definition returned None
NoRecord == [topic |-> None, definition |-> None, url |-> None]

get_wikipedia_definition(topic, resp) ==
    IF resp.status = "404" THEN NoRecord
    ELSE IF resp.status = "error" THEN NoRecord
    ELSE LET title == DictGet(resp.body.title, topic)
             definition == DictGet(resp.body.extract, <<>>)
             wiki_url == WikiUrl(resp.body.urls)
         IN  IF wiki_url = Raised THEN NoRecord
             ELSE IF ~Truthy(definition) \/ resp.body.type = "disambiguation"
                  THEN NoRecord
                  ELSE [topic |-> title, definition |-> definition, url |-> wiki_url]
\* the size test dropped
FileNonEmptyExistsOnly(ex, f) == ex

\* --------------------------------------------------------------- save_entry
\* os.path.exists(OUTPUT_FILE) and os.path.getsize(OUTPUT_FILE) > 0
\* (every row, even a blank one, occupies at least its line terminator)
FileNonEmpty(ex, f) == ex /\ Len(f) > 0

\* the csv module writes None as the empty string
CsvCell(v) == IF v = None THEN <<>> ELSE v

EntryRow(data, label) ==
    <<current_date, label, CsvCell(data.topic), CsvCell(data.definition),
      CsvCell(data.url)>>

\* the with-block of save_entry: header when the file was judged
\* absent/empty, then the row; both leave the buffer together at close
WriteEntry(f, fileExists, data, label) ==
    LET withHeader == IF fileExists THEN f ELSE Append(f, fieldnames)
    IN  Append(withHeader, EntryRow(data, label))

\* ----------------------------------------------------- load_existing_topics
\* csv.DictReader: the first non-blank row gives the field names
FirstNonBlank(f) ==
    IF \E i \in 1..Len(f) : f[i] # <<>>
    THEN CHOOSE i \in 1..Len(f) : f[i] # <<>> /\ \A j \in 1..(i - 1) : f[j] = <<>>
    ELSE 0

\* indexes of the rows DictReader yields, in order (blank rows are skipped)
YieldedRows(f) ==
    LET h == FirstNonBlank(f)
    IN  IF h = 0 THEN <<>>
        ELSE SelectSeq([i \in 1..(Len(f) - h) |-> i + h], LAMBDA i : f[i] # <<>>)

\* row.get('topic') for row r under field names names: dict(zip(names, r))
\* keeps the last column called 'topic'; a short row reads as None
RowTopic(names, r) ==
    LET cols == {i \in 1..Len(names) : names[i] = S_topic}
    IN  IF cols = {} THEN None
        ELSE LET c == CHOOSE i \in cols : \A j \in cols : j <= i
             IN  IF c <= Len(r) THEN r[c] ELSE None

\* reading never raises
NoFail == 0 - 1
\* .strip() dropped from the key
load_existing_topics_nostrip(ex, f, failAt) ==
    IF ~ex THEN {}
    ELSE LET h == FirstNonBlank(f)
             ys == YieldedRows(f)
             n == IF failAt = NoFail \/ failAt > Len(ys) THEN Len(ys) ELSE failAt
         IN  IF h = 0 THEN {}
             ELSE { Lower(RowTopic(f[h], f[ys[k]])) :
                      k \in {j \in 1..n : Truthy(RowTopic(f[h], f[ys[j]]))} }

\* failAt = k >= 0: the read raises once k rows have been yielded
\* (k beyond the number of rows: no failure); the except clause keeps the
\* topics collected so far
load_existing_topics(ex, f, failAt) ==
    IF ~ex THEN {}
    ELSE LET h == FirstNonBlank(f)
             ys == YieldedRows(f)
             n == IF failAt = NoFail \/ failAt > Len(ys) THEN Len(ys) ELSE failAt
         IN  IF h = 0 THEN {}
             ELSE { Normalize(RowTopic(f[h], f[ys[k]])) :
                      k \in {j \in 1..n : Truthy(RowTopic(f[h], f[ys[j]]))} }


\* ================================================== the glossary collector
Procs == {"A", "B"}
\* the sequential deployment: one scheduled run after another
SeqProcs == {"A"}

VARIABLES
    fexists,        \* CS_Glossary.csv exists
    file,           \* its rows, in file order
    written,        \* the (data, label) pairs save_entry has written, in order
    runs,           \* collector runs started so far
    pc,             \* position of each run
    used_topics,    \* de-duplication set of each run
    attempts,
    topic_found,
    random_title,
    label,
    wiki_data,
    file_exists,    \* the local of save_entry
    lastAct,        \* last of {"request", "sleep"} a run performed
    saved,          \* save_entry was entered during the run
    file0,          \* the file as the run found it
    read_fail,      \* where reading the CSV raises (NoFail: nowhere)
    cm_response     \* the categorymembers response handed to a direct call

VARIABLES
    npc,            \* position of the news collector
    top_ids,        \* number of ids in top_ids after the [:30] slice
    hn_next,        \* index of the next id the for loop visits
    hn_stories,
    tech_stories,
    hn_raised,      \* "no", or where get_hackernews_stories caught an exception
    tech_raised,    \* "no", or why get_tech_news came back early
    news_file,      \* NewsData.csv rows
    news0           \* NewsData.csv before the run

fvars == <<fexists, file, written>>
lvars == <<pc, used_topics, attempts, topic_found, random_title, label,
           wiki_data, file_exists, lastAct, saved, file0>>
ivars == <<read_fail, cm_response>>
gvars == <<fvars, runs, lvars, ivars>>
nvars == <<npc, top_ids, hn_next, hn_stories, tech_stories, hn_raised,
           tech_raised, news_file, news0>>
vars == <<gvars, nvars>>

NoLabel == <<>>
NoResponse == [err |-> FALSE, pages |-> <<>>]

\* the locals of every process before it starts
LocalsInit ==
    /\ pc = [p \in Procs |-> "idle"]
    /\ used_topics = [p \in Procs |-> {}]
    /\ attempts = [p \in Procs |-> 0]
    /\ topic_found = [p \in Procs |-> FALSE]
    /\ random_title = [p \in Procs |-> None]
    /\ label = [p \in Procs |-> NoLabel]
    /\ wiki_data = [p \in Procs |-> NoRecord]
    /\ file_exists = [p \in Procs |-> FALSE]
    /\ lastAct = [p \in Procs |-> "none"]
    /\ saved = [p \in Procs |-> FALSE]
    /\ file0 = [p \in Procs |-> [ex |-> FALSE, rows |-> <<>>]]

\* CS_Glossary.csv absent or zero-length, nothing started
GInit ==
    /\ fexists \in BOOLEAN
    /\ file = <<>>
    /\ written = <<>>
    /\ runs = 0
    /\ LocalsInit
    /\ read_fail = NoFail
    /\ cm_response = NoResponse

\* the news collector not started
NIdle ==
    /\ npc = "off"
    /\ top_ids = 0
    /\ hn_next = 1
    /\ hn_stories = <<>>
    /\ tech_stories = <<>>
    /\ hn_raised = "no"
    /\ tech_raised = "no"
    /\ news_file = <<>>
    /\ news0 = <<>>

\* lines 159-166: load the de-duplication set, reset the loop variables
StartRun(p) ==
    /\ pc[p] = "idle"
    /\ runs < MaxRuns
    /\ runs' = runs + 1
    /\ used_topics' = [used_topics EXCEPT ![p] = load_existing_topics(fexists, file, read_fail)]
    /\ attempts' = [attempts EXCEPT ![p] = 0]
    /\ topic_found' = [topic_found EXCEPT ![p] = FALSE]
    /\ file0' = [file0 EXCEPT ![p] = [ex |-> fexists, rows |-> file]]
    /\ pc' = [pc EXCEPT ![p] = "loop"]
    /\ UNCHANGED <<fvars, random_title, label, wiki_data, file_exists,
                   lastAct, saved, ivars, nvars>>
\* the cap tested with <= instead of <
LoopContinuesOffByOne(p) == ~topic_found[p] /\ attempts[p] <= max_attempts

\* the while test of line 168
LoopContinues(p) == ~topic_found[p] /\ attempts[p] < max_attempts
\* the de-duplication test dropped
AfterPickNoDedup(p, t) ==
    IF ~Truthy(t) THEN [pc |-> "loop", act |-> "request"]
    ELSE [pc |-> "fetch", act |-> "request"]

\* what follows the category request for title t: pc "loop" is `continue`,
\* act is the last thing the attempt did so far
AfterPick(p, t) ==
    IF ~Truthy(t) THEN [pc |-> "loop", act |-> "request"]
    ELSE IF Normalize(t) \in used_topics[p] THEN [pc |-> "loop", act |-> "sleep"]
    ELSE [pc |-> "fetch", act |-> "request"]

\* every value the category step can hand to the loop when the server
\* answers with one of listings (or the request fails)
PickResults(listings) ==
    UNION { get_random_page_from_category(err, pages) :
              err \in BOOLEAN, pages \in listings }

AnyPick == PickResults(Listings)

\* lines 168-189: one attempt up to the de-duplication check
PickPageFrom(p, results) ==
    /\ pc[p] = "loop"
    /\ LoopContinues(p)
    /\ attempts' = [attempts EXCEPT ![p] = @ + 1]
    /\ \E cat \in CATEGORY_DATA, t \in results :
            /\ label' = [label EXCEPT ![p] = cat.label]
            /\ random_title' = [random_title EXCEPT ![p] = t]
            /\ lastAct' = [lastAct EXCEPT ![p] = AfterPick(p, t).act]
            /\ pc' = [pc EXCEPT ![p] = AfterPick(p, t).pc]
    /\ UNCHANGED <<fvars, runs, used_topics, topic_found, wiki_data,
                   file_exists, saved, file0, ivars, nvars>>

PickPage(p) == PickPageFrom(p, AnyPick)

\* lines 192-200: the summary request; a record enters save_entry,
\* None sleeps and retries
FetchDefinitionFrom(p, responses) ==
    /\ pc[p] = "fetch"
    /\ \E d \in { get_wikipedia_definition(random_title[p], resp) : resp \in responses } :
             /\ wiki_data' = [wiki_data EXCEPT ![p] = d]
             /\ IF d # NoRecord
                THEN /\ pc' = [pc EXCEPT ![p] = "save"]
                     /\ saved' = [saved EXCEPT ![p] = TRUE]
                     /\ lastAct' = [lastAct EXCEPT ![p] = "request"]
                ELSE /\ pc' = [pc EXCEPT ![p] = "loop"]
                     /\ saved' = saved
                     /\ lastAct' = [lastAct EXCEPT ![p] = "sleep"]
    /\ UNCHANGED <<fvars, runs, used_topics, attempts, topic_found,
                   random_title, label, file_exists, file0, ivars, nvars>>

FetchDefinition(p) == FetchDefinitionFrom(p, SummaryResponses)
\* save_entry waiting while another run is inside its with-block
SaveCheckLocked(p) ==
    /\ pc[p] = "save"
    /\ \A q \in Procs \ {p} : pc[q] # "write"
    /\ file_exists' = [file_exists EXCEPT ![p] = FileNonEmpty(fexists, file)]
    /\ pc' = [pc EXCEPT ![p] = "write"]
    /\ UNCHANGED <<fvars, runs, used_topics, attempts, topic_found,
                   random_title, label, wiki_data, lastAct, saved, file0,
                   ivars, nvars>>

\* line 137
SaveCheck(p) ==
    /\ pc[p] = "save"
    /\ file_exists' = [file_exists EXCEPT ![p] = FileNonEmpty(fexists, file)]
    /\ pc' = [pc EXCEPT ![p] = "write"]
    /\ UNCHANGED <<fvars, runs, used_topics, attempts, topic_found,
                   random_title, label, wiki_data, lastAct, saved, file0,
                   ivars, nvars>>

\* lines 139-154 and 197
SaveWrite(p) ==
    /\ pc[p] = "write"
    /\ file' = WriteEntry(file, file_exists[p], wiki_data[p], label[p])
    /\ fexists' = TRUE
    /\ written' = Append(written, <<wiki_data[p], label[p]>>)
    /\ topic_found' = [topic_found EXCEPT ![p] = TRUE]
    /\ pc' = [pc EXCEPT ![p] = "loop"]
    /\ UNCHANGED <<runs, used_topics, attempts, random_title, label, wiki_data,
                   file_exists, lastAct, saved, file0, ivars, nvars>>

\* the while test fails; lines 202-203
Finish(p) ==
    /\ pc[p] = "loop"
    /\ ~LoopContinues(p)
    /\ pc' = [pc EXCEPT ![p] = IF topic_found[p] THEN "found" ELSE "exhausted"]
    /\ UNCHANGED <<fvars, runs, used_topics, attempts, topic_found,
                   random_title, label, wiki_data, file_exists, lastAct, saved,
                   file0, ivars, nvars>>

\* the process exits; the next scheduled run starts from scratch
Exit(p) ==
    /\ pc[p] \in {"found", "exhausted"}
    /\ pc' = [pc EXCEPT ![p] = "idle"]
    /\ used_topics' = [used_topics EXCEPT ![p] = {}]
    /\ attempts' = [attempts EXCEPT ![p] = 0]
    /\ topic_found' = [topic_found EXCEPT ![p] = FALSE]
    /\ random_title' = [random_title EXCEPT ![p] = None]
    /\ label' = [label EXCEPT ![p] = NoLabel]
    /\ wiki_data' = [wiki_data EXCEPT ![p] = NoRecord]
    /\ file_exists' = [file_exists EXCEPT ![p] = FALSE]
    /\ lastAct' = [lastAct EXCEPT ![p] = "none"]
    /\ saved' = [saved EXCEPT ![p] = FALSE]
    /\ file0' = [file0 EXCEPT ![p] = [ex |-> FALSE, rows |-> <<>>]]
    /\ UNCHANGED <<fvars, runs, ivars, nvars>>

SaveSteps(p) ==
    \/ SaveCheck(p)
    \/ SaveWrite(p)
    \/ Finish(p)
    \/ Exit(p)

\* runs never overlap
StartAlone(p) == StartRun(p) /\ \A q \in Procs : pc[q] = "idle"

Init == GInit /\ NIdle

Next ==
    \E p \in SeqProcs :
        \/ StartAlone(p)
        \/ PickPage(p)
        \/ FetchDefinition(p)
        \/ SaveSteps(p)

Spec == Init /\ [][Next]_vars

\* a started run is scheduled until it exits; nothing obliges the scheduler
\* to start another
FairSpec ==
    Spec /\ \A p \in SeqProcs : WF_vars(PickPage(p) \/ FetchDefinition(p) \/ SaveSteps(p))

\* Two runs on the same file.  The interleavings are explored against a
\* server that answers with the listings and the summary bodies below; the
\* steps that touch the file are the same actions as above.
ConcListings == {<<>>, <<T_Z>>}

ConcSummaries ==
    { r \in SummaryResponses :
        \/ r.status = "404"
        \/ /\ r.status = "ok"
           /\ r.body = [title |-> Absent, extract |-> D_text, type |-> "standard",
                        urls |-> [cu |-> "dict", desktop |-> "dict", page |-> U_text]] }

ConcPick == PickResults(ConcListings)

NextConc ==
    \E p \in Procs :
        \/ StartRun(p)
        \/ PickPageFrom(p, ConcPick)
        \/ FetchDefinitionFrom(p, ConcSummaries)
        \/ SaveSteps(p)

SpecConc == Init /\ [][NextConc]_vars


\* ------------------------------------------- save_entry called in a row
\* the dicts get_wikipedia_definition can hand to save_entry
Records ==
    [ topic : {T_Z, T_Q, None}, definition : {D_text}, url : {<<>>, None, U_text} ]

\* a caller enters save_entry(data, label)
DirectSave(p) ==
    /\ pc[p] = "idle"
    /\ Len(written) < MaxWrites
    /\ \E data \in Records, cat \in CATEGORY_DATA :
         /\ wiki_data' = [wiki_data EXCEPT ![p] = data]
         /\ label' = [label EXCEPT ![p] = cat.label]
    /\ saved' = [saved EXCEPT ![p] = TRUE]
    /\ file0' = [file0 EXCEPT ![p] = [ex |-> fexists, rows |-> file]]
    /\ pc' = [pc EXCEPT ![p] = "save"]
    /\ UNCHANGED <<fvars, runs, used_topics, attempts, topic_found,
                   random_title, file_exists, lastAct, ivars, nvars>>

NextSave == \E p \in SeqProcs : DirectSave(p) \/ SaveSteps(p)

SpecSave == Init /\ [][NextSave]_vars

\* --------------------------- load_existing_topics on an arbitrary CSV
R_Z == EntryRow([topic |-> T_Z, definition |-> D_text, url |-> U_text], <<"A","I">>)
R_z == EntryRow([topic |-> T_z, definition |-> D_text, url |-> U_text], <<"A","I">>)
R_Q == EntryRow([topic |-> T_Q, definition |-> D_text, url |-> <<>>], <<"A","I">>)
R_empty == EntryRow([topic |-> None, definition |-> D_text, url |-> U_text], <<"A","I">>)
R_short == <<current_date, <<"A","I">>>>
R_blank == <<>>

RowPool == {fieldnames, R_Z, R_z, R_Q, R_empty, R_short, R_blank}

InitLoad ==
    /\ fexists = TRUE
    /\ file \in SeqsUpTo(RowPool, MaxRows)
    /\ written = <<>>
    /\ runs = 0
    /\ LocalsInit
    /\ read_fail \in {NoFail} \cup 0..MaxRows
    /\ cm_response = NoResponse
    /\ NIdle

NextLoad == \E p \in SeqProcs : StartAlone(p)

SpecLoad == InitLoad /\ [][NextLoad]_vars

\* ------------------ get_random_page_from_category on an arbitrary response
InitCategory ==
    /\ fexists = FALSE
    /\ file = <<>>
    /\ written = <<>>
    /\ runs = 0
    /\ LocalsInit
    /\ read_fail = NoFail
    /\ cm_response \in [err : BOOLEAN, pages : Listings]
    /\ NIdle

\* random_title = get_random_page_from_category(cat_name), line 179
CategoryCall(p) ==
    /\ pc[p] = "idle"
    /\ \E t \in get_random_page_from_category(cm_response.err, cm_response.pages) :
         random_title' = [random_title EXCEPT ![p] = t]
    /\ pc' = [pc EXCEPT ![p] = "picked"]
    /\ UNCHANGED <<fvars, runs, used_topics, attempts, topic_found, label,
                   wiki_data, file_exists, lastAct, saved, file0, ivars, nvars>>

NextCategory == \E p \in SeqProcs : CategoryCall(p)

SpecCategory == InitCategory /\ [][NextCategory]_vars

\* ====================================================== the news collector
N_title == <<"n">>
N_date == current_date

\* JSON of one item: "error" (request or json() raises), "null", or an
\* object whose 'title' is missing, null or a string
HNItems == {"error", "null", "notitle", "nulltitle", "title"}

ItemTitle(kind) == IF kind = "nulltitle" THEN None ELSE N_title

Min(a, b) == IF a < b THEN a ELSE b
\* the [:limit] slice dropped
HNBatchAll(n, limit) == n

\* the ids the for loop of line 14 visits: top_ids[:limit]
HNBatch(n, limit) == Min(n, limit)

\* line 12: the listing request; any exception leaves stories empty
HNListing ==
    /\ npc = "start"
    /\ \/ /\ hn_raised' = "listing"
          /\ npc' = "tech"
          /\ UNCHANGED <<top_ids, hn_next>>
       \/ \E n \in 0..MaxIds :
            /\ top_ids' = Min(n, hn_slice)
            /\ hn_next' = 1
            /\ npc' = "hn_items"
            /\ UNCHANGED hn_raised
    /\ UNCHANGED <<hn_stories, tech_stories, tech_raised, news_file, news0, gvars>>

\* lines 15-22: one item request; an exception ends the function with the
\* stories appended so far
HNItem ==
    /\ npc = "hn_items"
    /\ hn_next <= HNBatch(top_ids, news_limit)
    /\ \E kind \in HNItems :
         IF kind = "error"
         THEN /\ hn_raised' = "item"
              /\ npc' = "tech"
              /\ UNCHANGED <<hn_next, hn_stories>>
         ELSE /\ hn_next' = hn_next + 1
              /\ hn_stories' =
                    IF kind \in {"null", "notitle"} THEN hn_stories
                    ELSE Append(hn_stories, [source |-> "Hacker News",
                                             title |-> ItemTitle(kind)])
              /\ UNCHANGED <<hn_raised, npc>>
    /\ UNCHANGED <<top_ids, tech_stories, tech_raised, news_file, news0, gvars>>

\* the for loop is over; line 26
HNReturn ==
    /\ npc = "hn_items"
    /\ hn_next > HNBatch(top_ids, news_limit)
    /\ npc' = "tech"
    /\ UNCHANGED <<top_ids, hn_next, hn_stories, tech_stories, hn_raised,
                   tech_raised, news_file, news0, gvars>>

\* items of the tech-news listing: an object whose 'title' is missing, null
\* or a string, or something that is not an object
TechItems == {"notitle", "nulltitle", "title", "notdict"}

TechTitle(kind) ==
    IF kind = "nulltitle" THEN None
    ELSE IF kind = "notitle" THEN <<>>
    ELSE N_title

\* lines 37-43 over data[:limit]: item.get raises on a non-object and the
\* except clause keeps what was appended before it
RECURSIVE TechLoop(_, _, _)
TechLoop(data, i, acc) ==
    IF i > Len(data) THEN [stories |-> acc, raised |-> "no"]
    ELSE IF data[i] = "notdict" THEN [stories |-> acc, raised |-> "item"]
    ELSE TechLoop(data, i + 1,
                  Append(acc, [source |-> "Tech News", title |-> TechTitle(data[i])]))

\* get_tech_news(limit) for one response: status "error" is an exception from
\* requests.get or json() (or a body that cannot be sliced), "non200" any
\* other status code
get_tech_news(limit, resp) ==
    IF resp.status = "error" THEN [stories |-> <<>>, raised |-> "request"]
    ELSE IF resp.status = "non200" THEN [stories |-> <<>>, raised |-> "non200"]
    ELSE TechLoop(SubSeq(resp.data, 1, Min(limit, Len(resp.data))), 1, <<>>)

TechResponses ==
    { [status |-> st, data |-> <<>>] : st \in {"error", "non200"} }
    \cup { [status |-> "ok", data |-> d] : d \in SeqsUpTo(TechItems, MaxIds) }

TechResults == { get_tech_news(news_limit, r) : r \in TechResponses }

\* line 52
TechNews ==
    /\ npc = "tech"
    /\ \E r \in TechResults :
         /\ tech_stories' = r.stories
         /\ tech_raised' = r.raised
    /\ npc' = "write"
    /\ UNCHANGED <<top_ids, hn_next, hn_stories, hn_raised, news_file, news0, gvars>>

NewsRow(story) == <<N_date, story.source, CsvCell(story.title)>>

\* lines 53-59
WriteNews ==
    /\ npc = "write"
    /\ LET all_stories == hn_stories \o tech_stories
       IN  news_file' = news_file \o [i \in 1..Len(all_stories) |-> NewsRow(all_stories[i])]
    /\ npc' = "done"
    /\ UNCHANGED <<top_ids, hn_next, hn_stories, tech_stories, hn_raised,
                   tech_raised, news0, gvars>>

OldNewsRow == <<N_date, "Tech News", <<"o","l","d">>>>

InitNews ==
    /\ fexists = FALSE
    /\ file = <<>>
    /\ written = <<>>
    /\ runs = 0
    /\ LocalsInit
    /\ read_fail = NoFail
    /\ cm_response = NoResponse
    /\ npc = "start"
    /\ top_ids = 0
    /\ hn_next = 1
    /\ hn_stories = <<>>
    /\ tech_stories = <<>>
    /\ hn_raised = "no"
    /\ tech_raised = "no"
    /\ news_file \in {<<>>, <<OldNewsRow>>}
    /\ news0 = news_file

NextNews == HNListing \/ HNItem \/ HNReturn \/ TechNews \/ WriteNews

SpecNews == InitNews /\ [][NextNews]_vars


\* ================================================================ properties
\* positions of the data rows of a glossary file, and a row's topic cell
DataRowIdx(f) == {i \in 1..Len(f) : f[i] # fieldnames}
HeaderIdx(f) == {i \in 1..Len(f) : f[i] = fieldnames}
TopicCell(r) == r[3]

\* the row save_entry is expected to add for (data, label)
ExpectedRow(data, lbl) ==
    <<current_date, lbl,
      IF data.topic = None THEN <<>> ELSE data.topic,
      data.definition,
      IF data.url = None THEN <<>> ELSE data.url>>

Done(p) == pc[p] \in {"found", "exhausted"}

\* ------------------------------------------------------------------- C1
C1_Inv ==
    \A p \in Procs :
        /\ attempts[p] <= max_attempts
        /\ pc[p] = "exhausted" =>
              /\ attempts[p] = max_attempts
              /\ ~topic_found[p]
              /\ ~saved[p]
              /\ file = file0[p].rows
              /\ fexists = file0[p].ex

\* C1: a run's loop makes at most 10 attempts and then ends, whatever the
\* listing and summary requests return; a run that ends EXHAUSTED never
\* entered save_entry and left CS_Glossary.csv as it found it.
C1_BoundedLoopExhaustedWritesNothing ==
    /\ []C1_Inv
    /\ \A p \in SeqProcs : (pc[p] = "loop") ~> Done(p)

C1_Witness ==
    /\ pc["A"] = "exhausted"
    /\ attempts["A"] = max_attempts
    /\ runs = 2
    /\ Len(file) = 2

\* ------------------------------------------------------------------- C2
\* C2: after any sequence of non-overlapping runs from an absent or empty
\* file, no two data rows share the same normalized topic.  (Stated for the
\* rows that carry a topic: an empty topic cell comes only from a null
\* title, which is C7's subject.)
C2_NoDuplicateTopics ==
    \A i, j \in DataRowIdx(file) :
        (i # j /\ TopicCell(file[i]) # <<>>) =>
            Normalize(TopicCell(file[i])) # Normalize(TopicCell(file[j]))

\* ------------------------------------------------------------------- C3
\* C3: N >= 1 save_entry calls in a row on an absent or zero-length file
\* leave exactly one header followed by the N rows in write order.
C3_OneHeaderThenRowsInOrder ==
    /\ Len(written) = 0 => file = <<>>
    /\ Len(written) >= 1 =>
          /\ Len(file) = Len(written) + 1
          /\ file[1] = fieldnames
          /\ \A i \in 1..Len(written) :
                file[i + 1] = ExpectedRow(written[i][1], written[i][2])

C3_Witness ==
    /\ Len(written) >= 2
    /\ Len(file) = Len(written) + 1
    /\ pc["A"] = "idle"
    /\ written[1] # written[2]

\* ------------------------------------------------------------------- C4
Loaded(p) == pc[p] = "loop" /\ attempts[p] = 0

YieldedBefore(i) == Cardinality({j \in 2..(i - 1) : file[j] # <<>>})

WasRead(i) == read_fail = NoFail \/ YieldedBefore(i) < read_fail

NewsRows(stories) ==
    [i \in 1..Len(stories) |->
        <<N_date, stories[i].source,
          IF stories[i].title = None THEN <<>> ELSE stories[i].title>>]

NewsCommon ==
    /\ Len(hn_stories) <= news_limit
    /\ Len(tech_stories) <= news_limit
    /\ hn_raised # "no" => npc \in {"tech", "write", "done"}
    /\ npc = "done" => news_file = news0 \o NewsRows(hn_stories \o tech_stories)

C6_CategoryPickFiltered ==
    pc["A"] = "picked" =>
        LET t == random_title["A"]
            pages == cm_response.pages
            err == cm_response.err
            titled == \A i \in 1..Len(pages) : pages[i] # NoTitleKey
            out(x) == StartsWith(x, S_ListOf) \/ Contains(Lower(x), S_Disambig)
        IN  /\ t # None =>
                 /\ ~StartsWith(t, S_ListOf)
                 /\ ~Contains(t, S_Disambig)
                 /\ \E i \in 1..Len(pages) : pages[i] = t
            /\ (err \/ pages = <<>> \/ (titled /\ \A i \in 1..Len(pages) : out(pages[i])))
                 => t = None
            /\ (~err /\ titled /\ \E i \in 1..Len(pages) : ~out(pages[i]))
                 => (t # None /\ ~out(t))
            /\ (~err /\ pages = <<T_ListOfX, T_YDis, T_Z>>) => t = T_Z

C6_Witness ==
    /\ pc["A"] = "picked"
    /\ ~cm_response.err
    /\ cm_response.pages = <<T_ListOfX, T_YDis, T_Z>>
    /\ random_title["A"] = T_Z

\* ------------------------------------------------------------------- C7
\* C7: a record returned by get_wikipedia_definition has no null topic,
\* definition or url, whatever JSON the summary endpoint sent; a news story
\* appended has a non-null title.
C7_NoNullInRecord ==
    /\ \A p \in Procs :
          wiki_data[p] # NoRecord =>
              /\ wiki_data[p].topic # None
              /\ wiki_data[p].definition # None
              /\ wiki_data[p].url # None
    /\ \A i \in 1..Len(hn_stories) : hn_stories[i].title # None
    /\ \A i \in 1..Len(tech_stories) : tech_stories[i].title # None

\* ------------------------------------------------------------------- C8
\* C8: with two runs interleaved on the same file no step of a started run
\* waits for the other run (and the file can end up with two header lines
\* and two rows of the same normalized topic).
C8_NoRunWaits ==
    \A p \in Procs :
        pc[p] # "idle" =>
            ENABLED (\/ PickPageFrom(p, ConcPick)
                     \/ FetchDefinitionFrom(p, ConcSummaries)
                     \/ SaveSteps(p))

C8_Witness ==
    /\ Cardinality(HeaderIdx(file)) = 2
    /\ \E i, j \in DataRowIdx(file) :
          i # j /\ Normalize(TopicCell(file[i])) = Normalize(TopicCell(file[j]))
    /\ file0["A"].rows = <<>>
    /\ file0["B"].rows = <<>>
    /\ topic_found["A"] /\ topic_found["B"]

\* ------------------------------------------------------------------- C9
\* C9: an attempt after the first issues its category request only after the
\* politeness delay that follows the previous, failed attempt.
C9_DelayBetweenAttempts ==
    [][\A p \in Procs :
          (attempts'[p] = attempts[p] + 1 /\ attempts[p] >= 1) =>
              lastAct[p] = "sleep"]_vars

\* ------------------------------------------------------------------ C10
C10_Inv ==
    \A p \in SeqProcs :
        pc[p] # "idle" =>
            LET old == file0[p].rows
                fresh == Normalize(random_title[p]) \notin used_topics[p]
            IN  /\ Len(file) >= Len(old)
                /\ SubSeq(file, 1, Len(old)) = old
                /\ Cardinality(DataRowIdx(file)) <= Cardinality(DataRowIdx(old)) + 1
                /\ topic_found[p] <=>
                      Cardinality(DataRowIdx(file)) = Cardinality(DataRowIdx(old)) + 1
                /\ pc[p] = "found" =>
                      /\ topic_found[p]
                      /\ wiki_data[p] # NoRecord
                      /\ fresh
                      /\ file[Len(file)] = ExpectedRow(wiki_data[p], label[p])
                /\ pc[p] = "exhausted" => (~topic_found[p] /\ wiki_data[p] = NoRecord)
                /\ pc[p] \in {"fetch", "save", "write"} => fresh

\* C10: a run appends at most one data row; it ends FOUND exactly when a
\* summary was retrieved for a title outside the de-duplication set and that
\* record was written, after which it makes no attempt and no request; the
\* summary is never fetched for a title in the set; the rows the run found
\* stay as they were.
C10_AtMostOneRowPerRun ==
    /\ []C10_Inv
    /\ [][\A p \in SeqProcs :
            (topic_found[p] /\ pc'[p] # "idle") =>
                /\ attempts'[p] = attempts[p]
                /\ lastAct'[p] = lastAct[p]
                /\ file' = file]_vars

C10_Witness ==
    /\ pc["A"] = "found"
    /\ runs = 2
    /\ Len(file0["A"].rows) = 2
    /\ Len(file) = 3
    /\ attempts["A"] > 1

====
